---------------------------- MODULE Spec2Model ----------------------------
(***************************************************************************)
(* Model of app.py: the W-2 tax assistant.                                 *)
(*                                                                         *)
(* Three specifications share this module:                                 *)
(*   SpecTax   - compute_tax_summary applied to bounded inputs             *)
(*   SpecParse - the reply parsing of extract_fields_from_text             *)
(*   Spec      - the session: one action per user event, each action being *)
(*               one complete run of the script                            *)
(*                                                                         *)
(* Units.  Money read from the form is held in mills (1/1000 dollar), so   *)
(* that amounts finer than a cent exist; the bracket arithmetic is exact   *)
(* in 1/100000 dollar (a mill times a whole percent rate); round(x, 2)     *)
(* yields cents.  Python rounds the binary float, which at an exact        *)
(* decimal tie may go either way; the model rounds ties to even.           *)
(***************************************************************************)
EXTENDS Integers, Sequences, FiniteSets, TLC

VARIABLES
    tax_in,          \* SpecTax: arguments of compute_tax_summary
    tax_out,         \* SpecTax: its result and signals, or NotRun
    reply,           \* SpecParse: the raw model reply (token sequence)
    parsed,          \* SpecParse: result and signal of parsing, or NotRun
    session_state,   \* Spec: st.session_state, a mapping from the keys present
    uploaded_file,   \* Spec: value of the file_uploader widget
    view,            \* Spec: what the last script run rendered
    turn,            \* Spec: the event, LLM outcomes and fate of the last run
    chat_call        \* Spec: the chat request sent during the last run, if any

vars == <<tax_in, tax_out, reply, parsed,
          session_state, uploaded_file, view, turn, chat_call>>

NotRun == [status |-> "not_run"]

Max(a, b) == IF a >= b THEN a ELSE b

Abs(a) == IF a >= 0 THEN a ELSE 0 - a

(***************************************************************************)
(* JSON / Python values that can stand in a field of the extracted data.   *)
(***************************************************************************)
Str(s) == [kind |-> "str", s |-> s, n |-> 0]

Num(n) == [kind |-> "num", s |-> <<>>, n |-> n]

Null == [kind |-> "null", s |-> <<>>, n |-> 0]

\* a non-empty JSON array: truthy, and float() of it raises TypeError
List == [kind |-> "list", s |-> <<>>, n |-> 0]

\* a JSON integer literal beyond the float range: float() raises OverflowError
HugeInt == [kind |-> "hugeint", s |-> <<>>, n |-> 0]

EmptyDict == [k \in {} |-> Null]

WagesKey == "Wages (Box 1)"

WithheldKey == "Federal Income Tax Withheld (Box 2)"

\* dict.get(key): None when the key is absent
Get(d, k) == IF k \in DOMAIN d THEN d[k] ELSE Null

\* Python truthiness of a value
Truthy(v) ==
    CASE v.kind = "str"  -> Len(v.s) > 0
      [] v.kind = "num"  -> v.n /= 0
      [] v.kind = "null" -> FALSE
      [] OTHER           -> TRUE

(***************************************************************************)
(* safe_float                                                              *)
(***************************************************************************)
Digits == {"0", "1", "2", "3", "4", "5", "6", "7", "8", "9"}

DigitVal(c) ==
    CASE c = "0" -> 0 [] c = "1" -> 1 [] c = "2" -> 2 [] c = "3" -> 3
      [] c = "4" -> 4 [] c = "5" -> 5 [] c = "6" -> 6 [] c = "7" -> 7
      [] c = "8" -> 8 [] c = "9" -> 9

RECURSIVE DigitsToNat(_)
DigitsToNat(ds) ==
    IF ds = <<>> THEN 0
    ELSE DigitsToNat(SubSeq(ds, 1, Len(ds) - 1)) * 10 + DigitVal(ds[Len(ds)])

\* ''.join(c for c in value if c.isdigit() or c == '.')
CleanedValue(s) == SelectSeq(s, LAMBDA c : c \in Digits \cup {"."})

\* float(str) on a string of digits and points: ValueError unless there is
\* at least one digit and at most one point.  The value is kept to the mill.
PyFloatOfStr(cs) ==
    LET dots == {i \in 1..Len(cs) : cs[i] = "."}
    IN  IF Cardinality(dots) > 1 \/ Len(cs) = Cardinality(dots)
        THEN [ok |-> FALSE, v |-> 0]
        ELSE LET p     == IF dots = {} THEN Len(cs) + 1
                          ELSE CHOOSE i \in dots : TRUE
                 whole == SubSeq(cs, 1, p - 1)
                 frac  == SubSeq(cs, p + 1, Len(cs))
                 frac3 == SubSeq(frac \o <<"0", "0", "0">>, 1, 3)
             IN  [ok |-> TRUE,
                  v  |-> DigitsToNat(whole) * 1000 + DigitsToNat(frac3)]

\* the exceptions safe_float catches
SafeFloatCaught == {"ValueError", "TypeError"}

\* float(value) for a value that is not a string: the result or the exception
PyFloat(v) ==
    CASE v.kind = "num"     -> [exc |-> "none", v |-> v.n]
      [] v.kind = "hugeint" -> [exc |-> "OverflowError", v |-> 0]
      [] OTHER              -> [exc |-> "TypeError", v |-> 0]

\* safe_float(value): [raised, v]; raised = an exception escapes safe_float
safe_float(value) ==
    IF value.kind = "str"
    THEN LET f == PyFloatOfStr(CleanedValue(value.s))
         IN  IF f.ok THEN [raised |-> FALSE, v |-> f.v]
             ELSE [raised |-> ~("ValueError" \in SafeFloatCaught), v |-> 0]
    ELSE LET f == PyFloat(value)
         IN  IF f.exc = "none" THEN [raised |-> FALSE, v |-> f.v]
             ELSE [raised |-> ~(f.exc \in SafeFloatCaught), v |-> 0]

(***************************************************************************)
(* compute_tax_summary                                                     *)
(***************************************************************************)
\* round(x, 2): x in units of 1/(100*d) dollar, result in cents
Round2(x, d) ==
    LET q == x \div d
        r == x % d
    IN  IF 2 * r < d THEN q
        ELSE IF 2 * r > d THEN q + 1
        ELSE IF q % 2 = 0 THEN q ELSE q + 1

\* str.lower() on the filing-status strings of the model
Lower(s) == IF s = "Single" THEN "single" ELSE s

\* standard_deductions.get(filing_status.lower(), 13850), in mills
standard_deductions(fs) ==
    CASE Lower(fs) = "single"                    -> 13850 * 1000
      [] Lower(fs) = "married_filing_jointly"    -> 27700 * 1000
      [] Lower(fs) = "married_filing_separately" -> 13850 * 1000
      [] Lower(fs) = "head_of_household"         -> 20800 * 1000
      [] OTHER                                   -> 13850 * 1000

required_fields == <<WagesKey, WithheldKey>>

\* [f for f in required_fields if not data.get(f)]
MissingFields(data) == SelectSeq(required_fields, LAMBDA f : ~Truthy(Get(data, f)))

\* a computation that forgets the floor at 0
TaxableIncome_NoFloor(income, std_deduction) == income - std_deduction

\* max(0, income - std_deduction), in mills
TaxableIncome(income, std_deduction) == Max(0, income - std_deduction)

\* The four formulas of the bracket schedule; taxable in mills, result in
\* 1/100000 dollar.
Bracket1(taxable) == taxable * 10

\* a schedule whose second bracket starts from the wrong base amount
Bracket2_WrongBase(taxable) == 1000 * 100000 + (taxable - 11000 * 1000) * 12

Bracket2(taxable) == 1100 * 100000 + (taxable - 11000 * 1000) * 12

Bracket3(taxable) == 5147 * 100000 + (taxable - 44725 * 1000) * 22

Bracket4(taxable) == 16290 * 100000 + (taxable - 95375 * 1000) * 24

\* the if/elif chain choosing the bracket
BracketTax(taxable) ==
    IF taxable <= 11000 * 1000 THEN Bracket1(taxable)
    ELSE IF taxable <= 44725 * 1000 THEN Bracket2(taxable)
    ELSE IF taxable <= 95375 * 1000 THEN Bracket3(taxable)
    ELSE Bracket4(taxable)

\* filing_status.replace("_", " ").title()
FilingStatusTitle(fs) ==
    CASE fs = "single"                    -> "Single"
      [] fs = "Single"                    -> "Single"
      [] fs = "married_filing_jointly"    -> "Married Filing Jointly"
      [] fs = "married_filing_separately" -> "Married Filing Separately"
      [] fs = "head_of_household"         -> "Head Of Household"
      [] OTHER                            -> "Widow"

\* The result of compute_tax_summary with its signals:
\*   summary - the returned dict (EmptyDict after a caught exception)
\*   missing - the fields named by the st.warning (<<>>: no warning)
\*   error   - st.error was called
\* Currency fields of the summary are in cents.
compute_tax_summary(data, filing_status, additional_deductions) ==
    LET std_deduction == standard_deductions(filing_status) + additional_deductions
        missing       == MissingFields(data)
        inc           == safe_float(Get(data, WagesKey))
        wh            == safe_float(Get(data, WithheldKey))
        income        == inc.v
        withheld      == wh.v
        taxable_income == TaxableIncome(income, std_deduction)
        tax           == Max(0, BracketTax(taxable_income))
        refund_or_due == Round2(withheld * 100 - tax, 1000)
    IN  IF inc.raised \/ wh.raised
        THEN [summary |-> EmptyDict, missing |-> missing, error |-> TRUE]
        ELSE [summary |->
                [Filing_Status   |-> FilingStatusTitle(filing_status),
                 Total_Income    |-> Round2(income, 10),
                 Standard_Deduction_Additional |-> Round2(std_deduction, 10),
                 Taxable_Income  |-> Round2(taxable_income, 10),
                 Estimated_Tax_Owed |-> Round2(tax, 1000),
                 Tax_Withheld    |-> Round2(withheld, 10),
                 Refund_or_Amount_Due |-> refund_or_due,
                 Status_Message  |-> IF refund_or_due > 0
                                     THEN "You will receive a refund."
                                     ELSE "You owe additional taxes."],
              missing |-> missing, error |-> FALSE]

(***************************************************************************)
(* SpecTax: compute_tax_summary on bounded inputs                          *)
(***************************************************************************)
\* values the model reply may give for "Wages (Box 1)"
WagesSamples ==
    {Str(<<"5", "0", ",", "0", "0", "0">>),
     Str(<<"$", "1", "3", "8", "5", "0", ".", "0", "2">>),
     Str(<<"2", "0", "0", "0", "0", ".", "0", "0", "6">>),
     Str(<<"1", "3", "9", "2", "8", ".", "2", "5">>),
     Str(<<"2", "4", "8", "5", "0">>),
     Str(<<"2", "4", "8", "5", "0", ".", "0", "0", "1">>),
     Str(<<"5", "8", "5", "7", "5">>),
     Str(<<"5", "8", "5", "7", "5", ".", "0", "0", "1">>),
     Str(<<"1", "0", "9", "2", "2", "5">>),
     Str(<<"1", "0", "9", "2", "2", "5", ".", "0", "0", "1">>),
     Str(<<"7", "2", "4", "2", "5">>),
     Str(<<"3", "1", "8", "0", "0">>),
     Str(<<>>),
     Str(<<"a", "b", "c">>),
     Str(<<"1", ".", "2", ".", "3">>),
     Num(0), Num(120000 * 1000), Num(0 - 5000 * 1000), Null, List, HugeInt}

\* values the model reply may give for "Federal Income Tax Withheld (Box 2)"
WithheldSamples ==
    {Str(<<"6", "0", "0", "0">>),
     Str(<<"0", ".", "0", "0", "6">>),
     Str(<<"2", ".", "2", "4">>),
     Str(<<"0">>),
     Str(<<>>),
     Num(0), Num(0 - 1000), Null, HugeInt}

\* every mapping that has, or lacks, each of the two required keys
DataSamples ==
    {EmptyDict}
    \cup {(WagesKey :> w) : w \in WagesSamples}
    \cup {(WithheldKey :> h) : h \in WithheldSamples}
    \cup {(WagesKey :> w) @@ (WithheldKey :> h) :
             w \in WagesSamples, h \in WithheldSamples}

\* the four options of the selectbox, and two strings it does not offer
SelectboxOptions ==
    {"single", "married_filing_jointly", "married_filing_separately",
     "head_of_household"}

FilingStatusSamples == SelectboxOptions \cup {"Single", "widow"}

\* number_input(min_value=0.0): amounts >= 0, in mills
DeductionSamples == {0, 4, 100 * 1000, 6950 * 1000}

TaxIdle ==
    /\ tax_in = NotRun
    /\ tax_out = NotRun

ParseIdle ==
    /\ reply = <<>>
    /\ parsed = NotRun

SessionIdle ==
    /\ session_state = EmptyDict
    /\ uploaded_file = "none"
    /\ view = "none"
    /\ turn = NotRun
    /\ chat_call = NotRun

InitTax ==
    /\ tax_in \in [data : DataSamples, filing_status : FilingStatusSamples,
                   additional_deductions : DeductionSamples]
    /\ tax_out = NotRun
    /\ ParseIdle
    /\ SessionIdle

\* one call of compute_tax_summary
TaxCompute ==
    /\ tax_out = NotRun
    /\ tax_out' = compute_tax_summary(tax_in.data, tax_in.filing_status,
                                      tax_in.additional_deductions)
    /\ UNCHANGED <<tax_in, reply, parsed,
                   session_state, uploaded_file, view, turn, chat_call>>

NextTax == TaxCompute

SpecTax == InitTax /\ [][NextTax]_vars

(***************************************************************************)
(* Properties of compute_tax_summary (checked under SpecTax)               *)
(***************************************************************************)
\* the call returned a non-empty summary
HasSummary == tax_out /= NotRun /\ DOMAIN tax_out.summary /= {}

\* C1 (as stated): every non-empty summary satisfies, on its reported
\* fields, Taxable Income = max(0, Total Income - combined deduction),
\* Estimated Tax Owed >= 0 and Refund or Amount Due = Tax Withheld -
\* Estimated Tax Owed.
C1_SummaryInvariantExact ==
    HasSummary =>
        LET S == tax_out.summary
        IN  /\ S.Taxable_Income =
                  Max(0, S.Total_Income - S.Standard_Deduction_Additional)
            /\ S.Estimated_Tax_Owed >= 0
            /\ S.Refund_or_Amount_Due = S.Tax_Withheld - S.Estimated_Tax_Owed

\* C1 (amended): every non-empty summary has Estimated Tax Owed >= 0, and its
\* reported Taxable Income and Refund or Amount Due differ by at most one
\* cent from max(0, Total Income - combined deduction) and from Tax Withheld -
\* Estimated Tax Owed: each field is rounded to cents on its own.
C1_SummaryInvariantToTheCent ==
    HasSummary =>
        LET S == tax_out.summary
        IN  /\ Abs(S.Taxable_Income -
                   Max(0, S.Total_Income - S.Standard_Deduction_Additional)) <= 1
            /\ S.Estimated_Tax_Owed >= 0
            /\ Abs(S.Refund_or_Amount_Due -
                   (S.Tax_Withheld - S.Estimated_Tax_Owed)) <= 1

\* a summary with positive taxable income whose refund is one cent away from
\* the difference of the reported withholding and tax
C1_Witness ==
    /\ HasSummary
    /\ tax_out.summary.Taxable_Income > 0
    /\ tax_out.summary.Refund_or_Amount_Due /=
           tax_out.summary.Tax_Withheld - tax_out.summary.Estimated_Tax_Owed

\* C6: the schedule is continuous at its boundaries: a summary whose taxable
\* income is 11000.00, 44725.00 or 95375.00 reports the tax 1100.00, 5147.00
\* or 16290.00, whatever the filing status, and at each boundary the formula
\* of the lower bracket equals the formula of the upper bracket.
C6_BracketsContinuous ==
    HasSummary =>
        LET S == tax_out.summary
        IN  /\ S.Taxable_Income = 1100000 => S.Estimated_Tax_Owed = 110000
            /\ S.Taxable_Income = 4472500 => S.Estimated_Tax_Owed = 514700
            /\ S.Taxable_Income = 9537500 => S.Estimated_Tax_Owed = 1629000
            /\ Bracket1(11000 * 1000) = Bracket2(11000 * 1000)
            /\ Bracket2(44725 * 1000) = Bracket3(44725 * 1000)
            /\ Bracket3(95375 * 1000) = Bracket4(95375 * 1000)

\* a joint filer whose taxable income sits on the second boundary
C6_Witness ==
    /\ HasSummary
    /\ tax_in.filing_status = "married_filing_jointly"
    /\ tax_out.summary.Taxable_Income = 4472500
    /\ tax_out.summary.Estimated_Tax_Owed = 514700

\* the required fields that are absent from the data or hold a falsy value
AbsentOrFalsy(data) ==
    {f \in {WagesKey, WithheldKey} :
        f \notin DOMAIN data \/ data[f] \in {Null, Str(<<>>), Num(0)}}

\* C8: the missing-fields warning names exactly the required fields that are
\* absent or falsy (none: no warning), and when a required field is missing
\* the summary is still non-empty, with the missing amount taken as 0.
C8_MissingFieldsStillSummarised ==
    tax_out /= NotRun =>
        LET S    == tax_out.summary
            miss == AbsentOrFalsy(tax_in.data)
        IN  /\ {tax_out.missing[i] : i \in 1..Len(tax_out.missing)} = miss
            /\ miss /= {} =>
                 /\ DOMAIN S /= {}
                 /\ WagesKey \in miss =>
                       /\ S.Total_Income = 0
                       /\ S.Taxable_Income = 0
                       /\ S.Estimated_Tax_Owed = 0
                 /\ WithheldKey \in miss => S.Tax_Withheld = 0

(***************************************************************************)
(* extract_fields_from_text: parsing of the model reply                    *)
(*                                                                         *)
(* A reply is a sequence of lexical tokens: the braces, the comma, tokens  *)
(* that each stand for one well-formed "key": value member, and "x" for    *)
(* any other text.                                                         *)
(***************************************************************************)
MemberTokens == {"w", "h", "w_sub", "w_huge", "h_sub"}

\* the member a token stands for
MemberOf(tok) ==
    CASE tok = "w"      -> [key |-> WagesKey,
                            val |-> Str(<<"5", "0", ",", "0", "0", "0">>)]
      [] tok = "h"      -> [key |-> WithheldKey,
                            val |-> Str(<<"6", "0", "0", "0">>)]
      [] tok = "w_sub"  -> [key |-> WagesKey,
                            val |-> Str(<<"1", "3", "8", "5", "0", ".", "0", "2">>)]
      [] tok = "h_sub"  -> [key |-> WithheldKey,
                            val |-> Str(<<"0", ".", "0", "0", "6">>)]
      [] tok = "w_huge" -> [key |-> WagesKey, val |-> HugeInt]

SetMin(S) == CHOOSE m \in S : \A k \in S : m <= k

SetMax(S) == CHOOSE m \in S : \A k \in S : m >= k

\* a greedy quantifier: the match runs to the last closing brace
MatchEnd_Greedy(text, i) ==
    IF text[i] /= "{" THEN 0
    ELSE LET ends == {j \in (i + 1)..Len(text) : text[j] = "}"}
         IN  IF ends = {} THEN 0 ELSE SetMax(ends)

\* \{.*?\} tried at position i: the index where the match ends, 0 if none.
\* The lazy quantifier stops at the first closing brace (DOTALL: any token
\* may lie between).
MatchEnd(text, i) ==
    IF text[i] /= "{" THEN 0
    ELSE LET ends == {j \in (i + 1)..Len(text) : text[j] = "}"}
         IN  IF ends = {} THEN 0 ELSE SetMin(ends)

\* re.search: the match at the leftmost position where one exists
re_search(text) ==
    LET starts == {i \in 1..Len(text) : MatchEnd(text, i) /= 0}
    IN  IF starts = {} THEN [found |-> FALSE, group |-> <<>>]
        ELSE LET i == SetMin(starts)
             IN  [found |-> TRUE, group |-> SubSeq(text, i, MatchEnd(text, i))]

\* json.loads on a token span: an object is "{", members separated by single
\* commas, "}"; a repeated key keeps its last value.  Anything else is a
\* JSONDecodeError.
json_loads(span) ==
    LET n     == Len(span)
        inner == SubSeq(span, 2, n - 1)
        m     == Len(inner)
        wellFormed ==
            /\ n >= 2
            /\ span[1] = "{"
            /\ span[n] = "}"
            /\ m = 0 \/ m % 2 = 1
            /\ \A k \in 1..m : IF k % 2 = 1 THEN inner[k] \in MemberTokens
                               ELSE inner[k] = ","
        keys  == {MemberOf(inner[k]).key : k \in {j \in 1..m : j % 2 = 1}}
        last(key) == SetMax({k \in 1..m : k % 2 = 1 /\ MemberOf(inner[k]).key = key})
    IN  IF wellFormed
        THEN [ok |-> TRUE, value |-> [key \in keys |-> MemberOf(inner[last(key)]).val]]
        ELSE [ok |-> FALSE, value |-> EmptyDict]

\* lines 77-89: the returned mapping and the signal shown to the user
ParseReply(text) ==
    LET match == re_search(text)
    IN  IF match.found
        THEN LET parsed_json == json_loads(match.group)
             IN  IF parsed_json.ok
                 THEN [data |-> parsed_json.value, signal |-> "parsed"]
                 ELSE [data |-> EmptyDict, signal |-> "json_decoding_failed"]
        ELSE [data |-> EmptyDict, signal |-> "no_json_found"]

(***************************************************************************)
(* SpecParse: the parsing applied to every reply of bounded length         *)
(***************************************************************************)
MaxReplyLen == 5

ReplyAlphabet == {"{", "}", ",", "w", "h", "x"}

BoundedSeq(S, n) == UNION {[1..k -> S] : k \in 0..n}

InitParse ==
    /\ reply \in BoundedSeq(ReplyAlphabet, MaxReplyLen)
    /\ parsed = NotRun
    /\ TaxIdle
    /\ SessionIdle

\* the reply of a 200 response is parsed
ParseStep ==
    /\ parsed = NotRun
    /\ parsed' = ParseReply(reply)
    /\ UNCHANGED <<tax_in, tax_out, reply,
                   session_state, uploaded_file, view, turn, chat_call>>

NextParse == ParseStep

SpecParse == InitParse /\ [][NextParse]_vars

Greeting ==
    [role |-> "assistant",
     content |-> <<"Hi! I'm your AI Tax Assistant. Let's get started!">>]

\* session_state[key] = value
Put(ss, key, value) == (key :> value) @@ ss

\* the outcomes of one requests.post to the chat-completion endpoint
ReplySamples ==
    {<<"{", "w", ",", "h", "}">>,
     <<"x", "{", "w_sub", ",", "h_sub", "}", "x">>,
     <<"{", "w_huge", ",", "h", "}">>,
     <<"{", "}">>,
     <<"{", "w", "x", "}">>,
     <<"x">>}

ExtractOutcomes ==
    {[kind |-> "ok", status |-> "200", reply |-> r, text |-> <<>>] :
        r \in ReplySamples}
    \cup {[kind |-> "non200", status |-> "500", reply |-> <<>>, text |-> <<"body">>],
          [kind |-> "transport", status |-> "", reply |-> <<>>,
           text |-> <<"timed out">>]}

ChatOutcomes ==
    {[kind |-> "ok", status |-> "200", reply |-> <<>>, text |-> <<"answer">>],
     [kind |-> "non200", status |-> "500", reply |-> <<>>, text |-> <<"body">>],
     [kind |-> "transport", status |-> "", reply |-> <<>>,
      text |-> <<"timed out">>]}

\* extract_fields_from_text from the request on.  The post is not inside a
\* try: a transport error leaves the function as a raised exception.
extract_fields_from_text(outcome) ==
    CASE outcome.kind = "transport" ->
            [raised |-> TRUE, data |-> EmptyDict, signal |-> "none"]
      [] outcome.kind = "non200" ->
            [raised |-> FALSE, data |-> EmptyDict, signal |-> "api_failed"]
      [] OTHER ->
            LET p == ParseReply(outcome.reply)
            IN  [raised |-> FALSE, data |-> p.data, signal |-> p.signal]

\* the message list built by assistant_respond_with_llm
general_messages(chat_history, user_input) ==
    <<[role |-> "system", content |-> <<"general system prompt">>]>>
    \o chat_history
    \o <<[role |-> "user", content |-> user_input]>>

\* assistant_respond_with_llm: the request sent and the text returned
assistant_respond_with_llm(ss, user_input, outcome) ==
    [mode |-> "general",
     messages |-> general_messages(ss["chat_history"], user_input),
     response |->
        CASE outcome.kind = "ok" -> outcome.text
          [] outcome.kind = "non200" ->
                <<"Error: ", outcome.status, " - ">> \o outcome.text
          [] OTHER -> <<"Failed to reach the assistant: ">> \o outcome.text]

\* the message list built by tax_qa_assistant_respond; the second message
\* embeds json.dumps of the context
qa_messages(ss, question) ==
    <<[role |-> "system", content |-> <<"tax expert system prompt">>],
      [role |-> "user", content |-> <<"User tax data:\n">>,
       context |-> [Extracted_W2_Data |-> Get(ss, "extracted_data"),
                    Tax_Summary |-> Get(ss, "summary")]],
      [role |-> "user", content |-> <<"User question: ">> \o question]>>

\* tax_qa_assistant_respond: the request sent and the text returned
tax_qa_assistant_respond(ss, question, outcome) ==
    [mode |-> "data_aware",
     messages |-> qa_messages(ss, question),
     response |->
        CASE outcome.kind = "ok" -> outcome.text
          [] outcome.kind = "non200" ->
                <<"Error: ", outcome.status, " - ">> \o outcome.text
          [] OTHER -> <<"Failed to answer: ">> \o outcome.text]

\* a selection that looks at the extracted data instead of the summary
UseDataAware_ByExtracted(ss) == "extracted_data" \in DOMAIN ss

\* if "summary" in st.session_state (chat section)
UseDataAware(ss) == "summary" \in DOMAIN ss

\* the chat input handler: append the question, call the responder chosen by
\* the presence of the summary, append the response
ChatHandler(ss, user_input, outcome) ==
    LET ss1  == Put(ss, "chat_history",
                    Append(ss["chat_history"],
                           [role |-> "user", content |-> user_input]))
        call == IF UseDataAware(ss1)
                THEN tax_qa_assistant_respond(ss1, user_input, outcome)
                ELSE assistant_respond_with_llm(ss1, user_input, outcome)
    IN  [ss   |-> Put(ss1, "chat_history",
                      Append(ss1["chat_history"],
                             [role |-> "assistant", content |-> call.response])),
         call |-> call]

\* extract_text_from_pdf
PdfText(file) == <<"text of ", file>>

\* the summary is stored whether or not the computation produced one
StoreSummary_Unchecked(ss, summary) == Put(ss, "summary", summary)

\* if summary: st.session_state["summary"] = summary
StoreSummary(ss, summary) ==
    IF DOMAIN summary /= {} THEN Put(ss, "summary", summary) ELSE ss

\* the view rendered at the end of view 1: storing a summary ends the run
\* with st.rerun(), and the rerun renders the summary view
FormOrSummary(ss) ==
    [ss |-> ss,
     view |-> IF "summary" \in DOMAIN ss THEN "summary" ELSE "form",
     raised |-> FALSE]

\* View 1 after a successful extraction: the form, and the calculation when
\* the button was clicked in this run.
CalculationForm(ss, extracted_data, clicked, filing_status, additional_deductions) ==
    IF clicked
    THEN FormOrSummary(
            StoreSummary(Put(ss, "extracted_data", extracted_data),
                         compute_tax_summary(extracted_data, filing_status,
                                             additional_deductions).summary))
    ELSE FormOrSummary(Put(ss, "extracted_data", extracted_data))

\* a view selection that tests the upload before the summary
MainView_UploadFirst(ss, file, clicked, filing_status, additional_deductions, outcome) ==
    IF file /= "none"
    THEN LET ex == extract_fields_from_text(outcome)
         IN  IF ex.raised
             THEN [ss |-> ss, view |-> "crashed", raised |-> TRUE]
             ELSE IF DOMAIN ex.data /= {}
             THEN CalculationForm(ss, ex.data, clicked, filing_status,
                                  additional_deductions)
             ELSE [ss |-> ss, view |-> "extract_failed", raised |-> FALSE]
    ELSE [ss |-> ss, view |-> "info", raised |-> FALSE]

\* the main part of the script (lines 248-301): the session state it leaves,
\* the view it renders, and whether it ended in an uncaught exception
MainView(ss, file, clicked, filing_status, additional_deductions, outcome) ==
    IF "summary" \in DOMAIN ss
    THEN [ss |-> ss, view |-> "summary", raised |-> FALSE]
    ELSE IF file /= "none"
    THEN LET ss1 == Put(ss, "raw_text", PdfText(file))
             ex  == extract_fields_from_text(outcome)
         IN  IF ex.raised
             THEN [ss |-> ss1, view |-> "crashed", raised |-> TRUE]
             ELSE IF DOMAIN ex.data /= {}
             THEN CalculationForm(ss1, ex.data, clicked, filing_status,
                                  additional_deductions)
             ELSE [ss |-> ss1, view |-> "extract_failed", raised |-> FALSE]
    ELSE [ss |-> ss, view |-> "info", raised |-> FALSE]

(***************************************************************************)
(* Spec: the session.  Every action is one user event followed by the      *)
(* complete script run it triggers.                                        *)
(***************************************************************************)
MaxChat == 2

Files == {"w2_a.pdf", "w2_b.pdf"}

Questions == {<<"q1">>, <<"q2">>}

NoQuestion == <<>>

\* values of the number_input in the session, in mills
SessionDeductions == {0, 100 * 1000}

\* the first run of a new session: no file, the greeting seeded
Init ==
    /\ session_state = ("chat_history" :> <<Greeting>>)
    /\ uploaded_file = "none"
    /\ view = "info"
    /\ turn = [event |-> "start", question |-> NoQuestion, extract |-> "none",
               chat |-> "none", raised |-> FALSE]
    /\ chat_call = NotRun
    /\ TaxIdle
    /\ ParseIdle

\* no request is made
NoOutcome == [kind |-> "none", status |-> "", reply |-> <<>>, text |-> <<>>]

\* The chat section at the end of a run: skipped when the main part raised
\* or no question was submitted.
ChatSection(mv, question, outcome) ==
    IF question /= NoQuestion /\ ~mv.raised
    THEN ChatHandler(mv.ss, question, outcome)
    ELSE [ss |-> mv.ss, call |-> NotRun]

\* One run of the script, top to bottom, after the event ev: file is the
\* uploader's value, clicked the button's, question the chat input's.
ScriptRun(ev, file, clicked, filing_status, additional_deductions, question) ==
    \E eo \in IF "summary" \notin DOMAIN session_state /\ file /= "none"
              THEN ExtractOutcomes ELSE {NoOutcome},
       co \in IF question /= NoQuestion THEN ChatOutcomes ELSE {NoOutcome} :
        \E mv \in {MainView(session_state, file, clicked, filing_status,
                            additional_deductions, eo)} :
            \E ch \in {ChatSection(mv, question, co)} :
                /\ uploaded_file' = file
                /\ view' = mv.view
                /\ session_state' = ch.ss
                /\ chat_call' = ch.call
                /\ reply' = eo.reply
                /\ parsed' = IF eo.kind = "ok" THEN ParseReply(eo.reply) ELSE NotRun
                /\ turn' = [event    |-> ev,
                            question |-> question,
                            extract  |-> eo.kind,
                            chat     |-> IF ch.call /= NotRun THEN co.kind
                                         ELSE "none",
                            raised   |-> mv.raised]
                /\ UNCHANGED <<tax_in, tax_out>>

\* the user puts a (different) file into the uploader
UploadFile ==
    \E f \in Files :
        /\ f /= uploaded_file
        /\ ScriptRun("upload", f, FALSE, "single", 0, NoQuestion)

\* the user clears the uploader
RemoveFile ==
    /\ uploaded_file /= "none"
    /\ ScriptRun("remove", "none", FALSE, "single", 0, NoQuestion)

\* the user changes the selectbox or the number input of the form
ChangeFormInput ==
    /\ view = "form"
    /\ \E fs \in SelectboxOptions, ad \in SessionDeductions :
          ScriptRun("input", uploaded_file, FALSE, fs, ad, NoQuestion)

\* the user clicks "Calculate Tax"
ClickCalculate ==
    /\ view = "form"
    /\ \E fs \in SelectboxOptions, ad \in SessionDeductions :
          ScriptRun("calculate", uploaded_file, TRUE, fs, ad, NoQuestion)

\* the user submits a question in the chat input, which is rendered only by
\* a run that reached the end of the script
SubmitChat ==
    /\ view /= "crashed"
    /\ Len(session_state["chat_history"]) < 1 + 2 * MaxChat
    /\ \E q \in Questions :
          ScriptRun("chat", uploaded_file, FALSE, "single", 0, q)

Next ==
    \/ UploadFile
    \/ RemoveFile
    \/ ChangeFormInput
    \/ ClickCalculate
    \/ SubmitChat

Spec == Init /\ [][Next]_vars

(***************************************************************************)
(* Properties of the session (checked under Spec)                          *)
(***************************************************************************)
chat_history == session_state["chat_history"]

IsPrefix(s, t) == Len(s) <= Len(t) /\ SubSeq(t, 1, Len(s)) = s

\* C2: a transport error on an outbound LLM call (the extraction call or
\* either chat call) never ends the run in a raised fault.
C2_TransportErrorsCaught ==
    (turn.extract = "transport" \/ turn.chat = "transport") => ~turn.raised

\* C3: the transcript starts as the single greeting and only grows, and a
\* run started by a chat question ends with the transcript extended by
\* exactly the user entry holding the question and the assistant entry
\* holding the returned text.
C3_EveryQuestionIsRecorded ==
    /\ chat_history = <<Greeting>>
    /\ [][/\ IsPrefix(chat_history, chat_history')
          /\ turn'.event = "chat" =>
                /\ chat_call' /= NotRun
                /\ chat_history' =
                      chat_history \o
                      <<[role |-> "user", content |-> turn'.question],
                        [role |-> "assistant", content |-> chat_call'.response]>>
         ]_vars

\* C4: a chat question is answered in data-aware mode exactly when the
\* summary is present, and the data-aware request consists of the system
\* instruction, the extracted-data/summary context and the question, with no
\* entry of the transcript among its messages.
C4_ModeBySummaryPresence ==
    chat_call /= NotRun =>
        /\ chat_call.mode = "data_aware" <=> "summary" \in DOMAIN session_state
        /\ chat_call.mode = "general" <=> "summary" \notin DOMAIN session_state
        /\ chat_call.mode = "data_aware" =>
              /\ Len(chat_call.messages) = 3
              /\ chat_call.messages[1].role = "system"
              /\ chat_call.messages[2].context =
                    [Extracted_W2_Data |-> session_state["extracted_data"],
                     Tax_Summary |-> session_state["summary"]]
              /\ chat_call.messages[3] =
                    [role |-> "user",
                     content |-> <<"User question: ">> \o turn.question]
              /\ \A i \in 1..Len(chat_call.messages), j \in 1..Len(chat_history) :
                    chat_call.messages[i] /= chat_history[j]

\* a data-aware answer given when the transcript already holds an exchange
C4_Witness ==
    /\ chat_call /= NotRun
    /\ chat_call.mode = "data_aware"
    /\ Len(chat_history) = 5
    /\ "summary" \in DOMAIN session_state

\* C5: once stored, the summary is never changed or removed by a later
\* run, and every later run renders the summary view.
C5_SummaryImmutable ==
    [][("summary" \in DOMAIN session_state) =>
          /\ "summary" \in DOMAIN session_state'
          /\ session_state'["summary"] = session_state["summary"]
          /\ view' = "summary"]_vars

\* a new file was uploaded after the summary had been stored
C5_Witness ==
    /\ "summary" \in DOMAIN session_state
    /\ turn.event = "upload"
    /\ view = "summary"

\* C9: a stored summary is non-empty and is the result of
\* compute_tax_summary on the non-empty extracted_data stored with it; a
\* summary is stored only by a calculation run whose own extraction returned
\* that non-empty mapping.
C9_SummaryMatchesExtractedData ==
    /\ [](("summary" \in DOMAIN session_state) =>
            /\ DOMAIN session_state["summary"] /= {}
            /\ "extracted_data" \in DOMAIN session_state
            /\ DOMAIN session_state["extracted_data"] /= {}
            /\ \E fs \in SelectboxOptions, ad \in SessionDeductions :
                  session_state["summary"] =
                     compute_tax_summary(session_state["extracted_data"],
                                         fs, ad).summary)
    /\ [][("summary" \notin DOMAIN session_state
            /\ "summary" \in DOMAIN session_state') =>
               /\ turn'.event = "calculate"
               /\ parsed' /= NotRun
               /\ parsed'.data = session_state'["extracted_data"]]_vars

\* a calculation whose extraction succeeded but whose computation returned
\* the empty result: nothing is stored
C9_Witness ==
    /\ turn.event = "calculate"
    /\ parsed /= NotRun
    /\ DOMAIN parsed.data /= {}
    /\ DOMAIN compute_tax_summary(parsed.data, "single", 0).summary = {}
    /\ "summary" \notin DOMAIN session_state
    /\ session_state["extracted_data"] = parsed.data

\* C10: the general-mode request is the system instruction, the transcript
\* as it stood before the question, and the question once, as the last
\* message.
C10_QuestionSentOnce ==
    (chat_call /= NotRun /\ chat_call.mode = "general") =>
        /\ chat_call.messages =
              <<[role |-> "system", content |-> <<"general system prompt">>]>>
              \o SubSeq(chat_history, 1, Len(chat_history) - 2)
              \o <<[role |-> "user", content |-> turn.question]>>
        /\ Cardinality({i \in 1..Len(chat_call.messages) :
                           chat_call.messages[i] =
                              [role |-> "user", content |-> turn.question]}) = 1

=============================================================================
